---- MODULE Spec2Model ----
(***************************************************************************)
(* AlphaVantageClient (src/src/ingestion/alpha_vantage.py): the client-side *)
(* rate limiter, the request executor with its retry loop, the boundary of  *)
(* the higher-level fetch methods, fetch_multiple_symbols, and the shaping  *)
(* of daily series and company overviews.                                   *)
(*                                                                          *)
(* Time is the integer number of seconds read from time.time().             *)
(* time.sleep(s) advances the clock by s; a GET itself takes no time, the   *)
(* time between two requests being the caller's (Gaps) or a sleep's.        *)
(* One client, one thread.                                                  *)
(***************************************************************************)
EXTENDS Integers, Naturals, Sequences, FiniteSets, TLC

(* ------------------------------ bounds --------------------------------- *)
\* most dates in a daily time series
MaxDates == 3
\* clock value at construction (time.time() is far beyond one window)
StartClock == 100
\* largest configured ALPHA_VANTAGE_RATE_LIMIT explored
MaxRateLimit == 2
\* largest configured MAX_RETRIES explored
MaxRetriesBound == 3
\* number of client-method invocations in one behaviour of Spec
MaxCalls == 1
\* number of requests in one behaviour of LimiterSpec
MaxRequests == 4
\* a caller waits 0..MaxSmallGap seconds, or about one window, between requests
MaxSmallGap == 2
\* longest list of symbols given to fetch_multiple_symbols
MaxSymbols == 3
\* largest configured MAX_RETRIES explored under fetch_multiple_symbols
MaxBatchRetries == 1

(* ------------------------- program constants --------------------------- *)
rate_limit_window == 60
NoteSleep == 60
PauseSecs == 1
\* Config.ALPHA_VANTAGE_RATE_LIMIT as shipped
ALPHA_VANTAGE_RATE_LIMIT == 5

Gaps == (0..MaxSmallGap)
          \cup {rate_limit_window - 1, rate_limit_window, rate_limit_window + 1}

(* -------------------------- server outcomes ---------------------------- *)
\* exceptions raised by requests.get / raise_for_status
Failures == {"Timeout", "ConnectionError", "HTTPError"}

\* a parsed 2xx JSON body: which of the keys the code looks at it holds
\* (section is the key the invoking method expects: "Time Series (...)",
\* "Symbol", "Technical Analysis: ...")
\* A body that _make_request does not return (an error, a call-frequency
\* Note) is read no further: one section value stands for all there.
Bodies ==
  {b \in [raises : {"none"},
          ErrorMessage : BOOLEAN,
          Note : {"absent", "call frequency", "other"},
          section : {"absent", "ok", "malformed"}] :
     (b.ErrorMessage \/ b.Note = "call frequency") => b.section = "absent"}

\* a GET that raises e instead of yielding a body
Failed(e) == [raises |-> e, ErrorMessage |-> FALSE, Note |-> "absent",
              section |-> "absent"]

Outcomes == {Failed(e) : e \in Failures} \cup Bodies

IsFailure(o) == o.raises \in Failures

\* a body with none of the keys _make_request reacts to
PlainBody == [raises |-> "none", ErrorMessage |-> FALSE, Note |-> "absent",
              section |-> "ok"]

\* Python's None as a returned value; a returned body b is <<b>>
None == <<>>

FetchMethods == {"get_daily_prices", "get_intraday_prices",
                 "get_company_overview", "get_technical_indicators"}
Methods == {"_make_request"} \cup FetchMethods

\* the ticker symbols callers pass, and the lists of them
Symbols == {"AAPL", "BADSYM", "MSFT"}
SymbolLists == UNION {[1..n -> Symbols] : n \in 0..MaxSymbols}

valid_intervals == {"1min", "5min", "15min", "30min", "60min"}
\* the intervals callers pass: the default, another valid one, invalid ones
Intervals == {"5min", "60min", "2min", "daily"}

VARIABLES
  now,                  \* time.time()
  last_call_time,       \* self.last_call_time
  call_count,           \* self.call_count
  max_calls_per_minute, \* self.max_calls_per_minute
  MAX_RETRIES,          \* Config.MAX_RETRIES
  pc,                   \* "idle", or "request" inside the loop of _make_request
  method,               \* the client method being (or last) invoked
  interval,             \* the interval argument of get_intraday_prices
  attempt,              \* loop variable of _make_request
  calls,                \* number of invocations so far
  reqs,                 \* every pass through _enforce_rate_limit + GET of the client
  outs,                 \* outcomes of the GETs of this invocation
  sleeps,               \* retry sleeps of this invocation (not rate-limit waits)
  ret,                  \* how the last invocation ended
  bpc,                  \* fetch_multiple_symbols: "idle", "loop" or "done"
  symbols,              \* its argument
  idx,                  \* its loop variable i (0 before the loop)
  results,              \* its dictionary `results`
  events,               \* the calls, returns and pauses of its loop, in order
  data                  \* a fetch method's local `data`: what _make_request gave it

\* the client, its configuration and the invocation under way
client == <<now, last_call_time, call_count, max_calls_per_minute, MAX_RETRIES,
            pc, method, interval, attempt, calls, reqs, outs, sleeps, ret>>

\* the run of fetch_multiple_symbols under way
batch == <<bpc, symbols, idx, results, events>>

vars == <<client, batch, data>>

(* --------------------------- _enforce_rate_limit ----------------------- *)
\* line 58: the counter is reset when a new window has begun
NewWindow(t) == t - last_call_time > rate_limit_window

CountAtEntry(t) == IF NewWindow(t) THEN 0 ELSE call_count

\* the limit test with > for >=: the limit is noticed one call late
LimitReachedLate(t) == CountAtEntry(t) > max_calls_per_minute

\* line 62
LimitReached(t) == CountAtEntry(t) >= max_calls_per_minute

\* line 63
wait_time(t) == rate_limit_window - (t - last_call_time)

\* lines 62-67: the limiter sleeps only when the limit is reached and wait > 0
Sleeps(t) == LimitReached(t) /\ wait_time(t) > 0

\* line 71: what is stored as the window start of a call that entered the
\* limiter at t and left it at `returned`
StoredCallTime(t, returned) == t

\* the whole limiter entered at clock t
EnforceRateLimit(t) ==
  LET slept == IF Sleeps(t) THEN wait_time(t) ELSE 0
      c     == IF Sleeps(t) THEN 0 ELSE CountAtEntry(t)
  IN [slept |-> slept,
      fresh |-> NewWindow(t),
      call_count |-> c + 1,
      last_call_time |-> StoredCallTime(t, t + slept)]

\* the record kept of one pass through the limiter and its GET
Req(t, lim) == [entry |-> t, slept |-> lim.slept, fresh |-> lim.fresh,
                issued |-> t + lim.slept]

(* ------------------------------ _make_request -------------------------- *)
\* a fixed delay in place of the doubling one
BackoffFixed(a) == 1

\* lines 123, 130
Backoff(a) == 2 ^ a

\* lines 122, 129
RetriesLeft(a) == a < MAX_RETRIES - 1

\* lines 110-116
IsFrequencyNote(o) ==
  ~IsFailure(o) /\ ~o.ErrorMessage /\ o.Note = "call frequency"

\* lines 107-108
IsApiError(o) == ~IsFailure(o) /\ o.ErrorMessage

\* a Note that retries in the same slot of the loop
AttemptAfterNoteSameSlot(a) == a

\* line 116: `continue` moves the for loop to its next index
AttemptAfterNote(a) == a + 1

\* except clauses that catch every exception of the try body
CatchesEverything(e) == TRUE

\* lines 120, 127: the exception classes the except clauses catch
IsRequestException(e) == e \in Failures

\* the exception the try body raises on outcome o ("none": it raises nothing)
RaisedInTry(o) ==
  IF IsFailure(o) THEN o.raises
  ELSE IF IsApiError(o) THEN "ValueError"
  ELSE "none"

(* ------------------------- fetch method boundary ----------------------- *)
\* how an invocation ends: a returned value, or a raised exception
Returned(v) == [status |-> "returned", value |-> v, exc |-> "none"]
Raised(e) == [status |-> "raised", value |-> None, exc |-> e]
NoResult == [status |-> "none", value |-> None, exc |-> "none"]

\* a method boundary that catches the request errors only
CatchesRequestErrorsOnly(e) == IsRequestException(e)

\* `except Exception` (lines 198, 272, 334, 401)
Caught(e) == TRUE

\* a validation that lets every interval through
NothingRejected(iv) == FALSE

\* lines 221-222
IntervalRejected(iv) == iv \notin valid_intervals

\* What a fetch method makes of what its executor returned.  `key in None`
\* raises TypeError; a section pandas cannot shape (not five columns, no dates)
\* raises ValueError; get_company_overview tests `not data` first and coerces
\* unparsable fields instead of raising.
Shaped(m, d) ==
  IF d = None
    THEN IF m = "get_company_overview"
           THEN Returned(None)
           ELSE Raised("TypeError")
  ELSE IF d[1].section = "absent" THEN Returned(None)
  ELSE IF d[1].section = "malformed" /\ m # "get_company_overview"
    THEN Raised("ValueError")
  ELSE Returned(d)

\* the try/except around the body of a fetch method
Boundary(r) ==
  IF r.status = "raised" /\ Caught(r.exc)
    THEN Returned(None)
    ELSE r

\* r is how _make_request ended; the result is how method m ends
MethodResult(m, r) ==
  IF m = "_make_request" THEN r
  ELSE IF r.status = "raised" THEN Boundary(r)
  ELSE Boundary(Shaped(m, r.value))

(* -------------------------------- Init --------------------------------- *)
\* no fetch_multiple_symbols under way
NoBatch ==
  /\ bpc = "idle"
  /\ symbols = <<>>
  /\ idx = 0
  /\ results = <<>>
  /\ events = <<>>

Init ==
  /\ NoBatch
  /\ now = StartClock
  /\ last_call_time = 0
  /\ call_count = 0
  /\ max_calls_per_minute \in 1..MaxRateLimit
  /\ MAX_RETRIES \in 0..MaxRetriesBound
  /\ pc = "idle"
  /\ method = "none"
  /\ interval = "none"
  /\ attempt = 0
  /\ calls = 0
  /\ reqs = <<>>
  /\ outs = <<>>
  /\ sleeps = <<>>
  /\ ret = NoResult
  /\ data = None

(* ------------------------------- actions ------------------------------- *)
\* A caller invokes client method m (iv: the interval of get_intraday_prices).
\* The method runs up to the first pass of the retry loop.  A rejected
\* interval raises ValueError inside the method's own try block (lines
\* 218-222); with no pass to run (range(MAX_RETRIES) empty) _make_request
\* falls off its end at once.
Invoke(m, iv) ==
  /\ pc = "idle"
  /\ bpc = "idle"
  /\ calls < MaxCalls
  /\ (m = "get_intraday_prices") = (iv # "none")
  /\ calls' = calls + 1
  /\ method' = m
  /\ interval' = iv
  /\ attempt' = 0
  /\ outs' = <<>>
  /\ sleeps' = <<>>
  /\ IF m = "get_intraday_prices" /\ IntervalRejected(iv)
       THEN pc' = "idle" /\ ret' = Boundary(Raised("ValueError"))
       ELSE IF MAX_RETRIES > 0
         THEN pc' = "request" /\ ret' = NoResult
         ELSE pc' = "idle" /\ ret' = MethodResult(m, Returned(None))
  /\ UNCHANGED <<now, last_call_time, call_count, max_calls_per_minute,
                 MAX_RETRIES, reqs>>
  /\ UNCHANGED <<batch, data>>

\* What one pass of the for loop of _make_request (lines 90-132) does on
\* outcome o of its GET: the limiter's effect, the sleep, the next loop index,
\* whether the loop goes on and, if not, how _make_request ends.
Pass(o) ==
  LET lim    == EnforceRateLimit(now)
      exc    == RaisedInTry(o)
      caught == exc # "none" /\ IsRequestException(exc)
      retry  == caught /\ RetriesLeft(attempt)
      note   == exc = "none" /\ IsFrequencyNote(o)
      nap    == IF retry THEN Backoff(attempt)
                ELSE IF note THEN NoteSleep ELSE 0
      next   == IF retry THEN attempt + 1
                ELSE IF note THEN AttemptAfterNote(attempt) ELSE attempt
  IN [lim    |-> lim,
      next   |-> next,
      loops  |-> (retry \/ note) /\ next < MAX_RETRIES,
      ended  |-> IF exc # "none" THEN Raised(exc)
                 ELSE IF note THEN Returned(None)
                 ELSE Returned(<<o>>),
      sleeps |-> IF nap > 0
                   THEN Append(sleeps, [after |-> attempt, secs |-> nap,
                          kind |-> IF note THEN "note" ELSE "backoff"])
                   ELSE sleeps,
      now    |-> now + lim.slept + nap]

\* One pass of the for loop of _make_request (lines 90-132): the limiter, the
\* GET, and the handling of its outcome o.  When the pass ends the loop, the
\* invoking method finishes in the same step.
Attempt(o) ==
  /\ pc = "request"
  /\ bpc = "idle"
  /\ attempt < MAX_RETRIES
  /\ LET p == Pass(o)
     IN /\ call_count' = p.lim.call_count
        /\ last_call_time' = p.lim.last_call_time
        /\ reqs' = Append(reqs, Req(now, p.lim))
        /\ outs' = Append(outs, o)
        /\ sleeps' = p.sleeps
        /\ now' = p.now
        /\ attempt' = p.next
        /\ IF p.loops
             THEN pc' = "request" /\ ret' = ret
             ELSE pc' = "idle" /\ ret' = MethodResult(method, p.ended)
  /\ UNCHANGED <<max_calls_per_minute, MAX_RETRIES, method, interval, calls>>
  /\ UNCHANGED <<batch, data>>

\* _make_request invoked gap seconds after the previous request returned, its
\* first GET answered by a plain body: one pass through the limiter, one GET.
Request(gap) ==
  /\ pc = "idle"
  /\ bpc = "idle"
  /\ MAX_RETRIES > 0
  /\ Len(reqs) < MaxRequests
  /\ LET t   == now + gap
         lim == EnforceRateLimit(t)
     IN /\ call_count' = lim.call_count
        /\ last_call_time' = lim.last_call_time
        /\ reqs' = Append(reqs, Req(t, lim))
        /\ now' = t + lim.slept
  /\ method' = "_make_request"
  /\ interval' = "none"
  /\ attempt' = 0
  /\ outs' = <<PlainBody>>
  /\ sleeps' = <<>>
  /\ ret' = Returned(<<PlainBody>>)
  /\ UNCHANGED <<max_calls_per_minute, MAX_RETRIES, pc, calls>>
  /\ UNCHANGED <<batch, data>>

(* ------------------------ fetch_multiple_symbols ----------------------- *)
\* one entry of the log of the loop: get_daily_prices called for symbols[i],
\* its return (ok: with a series, not None), the pause after it
Event(kind, i, ok) == [kind |-> kind, i |-> i, ok |-> ok]

\* a loop that stores whatever get_daily_prices returned, None included
StoredAlways(res, sym, r) ==
  [s \in DOMAIN res \cup {sym} |-> IF s = sym THEN r.value ELSE res[s]]

\* lines 426-429: results[symbol] = df, only if df is not None
Stored(res, sym, r) ==
  IF r.value # None
    THEN [s \in DOMAIN res \cup {sym} |-> IF s = sym THEN r.value ELSE res[s]]
    ELSE res

\* a pause after every symbol, the last one included
PauseAlways(i, total) == TRUE

\* line 432
PauseDue(i, total) == i < total

RECURSIVE Iterate(_, _, _, _, _)
RECURSIVE AfterFetch(_, _, _, _, _, _)

\* The loop of fetch_multiple_symbols(syms) from the call of get_daily_prices
\* for syms[i] (line 424) at clock t, up to the first loop pass of
\* _make_request that is to run, or to the end of the loop.  With no pass to
\* run (range(MAX_RETRIES) empty) get_daily_prices returns None at once.
Iterate(syms, i, res, ev, t) ==
  LET called == Append(ev, Event("call", i, FALSE))
  IN IF MAX_RETRIES > 0
       THEN [pc |-> "request", bpc |-> "loop", idx |-> i, results |-> res,
             events |-> called, now |-> t, ret |-> NoResult]
       ELSE AfterFetch(syms, i, MethodResult("get_daily_prices", Returned(None)),
                       res, called, t)

\* lines 426-433 after get_daily_prices for syms[i] ended as r at clock t,
\* then the next turn of the loop or its end
AfterFetch(syms, i, r, res, ev, t) ==
  LET stored   == Stored(res, syms[i], r)
      returned == Append(ev, Event("return", i, r.value # None))
      pause    == PauseDue(i, Len(syms))
      paused   == IF pause THEN Append(returned, Event("pause", i, FALSE))
                  ELSE returned
      t2       == IF pause THEN t + PauseSecs ELSE t
  IN IF i < Len(syms)
       THEN Iterate(syms, i + 1, stored, paused, t2)
       ELSE [pc |-> "idle", bpc |-> "done", idx |-> i, results |-> stored,
             events |-> paused, now |-> t2, ret |-> r]

\* fetch_multiple_symbols(syms) is invoked (lines 415-424) and runs up to the
\* first loop pass of _make_request, or to its return
FetchMultiple(syms) ==
  /\ pc = "idle"
  /\ bpc = "idle"
  /\ LET c == IF Len(syms) = 0
                THEN [pc |-> "idle", bpc |-> "done", idx |-> 0,
                      results |-> <<>>, events |-> <<>>, now |-> now,
                      ret |-> ret]
                ELSE Iterate(syms, 1, <<>>, <<>>, now)
     IN /\ pc' = c.pc
        /\ bpc' = c.bpc
        /\ idx' = c.idx
        /\ results' = c.results
        /\ events' = c.events
        /\ now' = c.now
        /\ ret' = c.ret
        /\ method' = IF Len(syms) = 0 THEN method ELSE "get_daily_prices"
  /\ symbols' = syms
  /\ attempt' = 0
  /\ outs' = <<>>
  /\ sleeps' = <<>>
  /\ UNCHANGED <<last_call_time, call_count, max_calls_per_minute,
                 MAX_RETRIES, interval, calls, reqs, data>>

\* One pass of the loop of _make_request, run for get_daily_prices inside
\* fetch_multiple_symbols.  When the pass ends get_daily_prices, the loop of
\* fetch_multiple_symbols goes on in the same step: the result is stored, the
\* pause is slept, the next symbol's get_daily_prices is called.
BatchAttempt(o) ==
  /\ pc = "request"
  /\ bpc = "loop"
  /\ attempt < MAX_RETRIES
  /\ LET p == Pass(o)
         c == AfterFetch(symbols, idx, MethodResult(method, p.ended),
                         results, events, p.now)
     IN /\ call_count' = p.lim.call_count
        /\ last_call_time' = p.lim.last_call_time
        /\ reqs' = Append(reqs, Req(now, p.lim))
        /\ IF p.loops
             THEN /\ outs' = Append(outs, o)
                  /\ sleeps' = p.sleeps
                  /\ now' = p.now
                  /\ attempt' = p.next
                  /\ UNCHANGED <<pc, ret, bpc, idx, results, events>>
             ELSE /\ pc' = c.pc
                  /\ bpc' = c.bpc
                  /\ idx' = c.idx
                  /\ results' = c.results
                  /\ events' = c.events
                  /\ now' = c.now
                  /\ ret' = c.ret
                  /\ outs' = IF c.pc = "request" THEN <<>> ELSE Append(outs, o)
                  /\ sleeps' = IF c.pc = "request" THEN <<>> ELSE p.sleeps
                  /\ attempt' = IF c.pc = "request" THEN 0 ELSE p.next
  /\ UNCHANGED <<max_calls_per_minute, MAX_RETRIES, method, interval, calls,
                 symbols, data>>

(* ------------------- shaping what the server returned ------------------ *)
\* a JSON value: a string, a number or null
Str(s) == [t |-> "str", s |-> s, n |-> 0]
Num(n) == [t |-> "num", s |-> "", n |-> n]
PyNone == [t |-> "null", s |-> "", n |-> 0]

\* a float: a number or NaN, the "missing" marker
Number(n) == [nan |-> FALSE, val |-> n]
NaN == [nan |-> TRUE, val |-> 0]

\* the strings of the model that parse as numbers, with their values; the
\* others ("", "n/a", "None", "-") do not parse
Numerals == ("0" :> 0) @@ ("10" :> 10) @@ ("20" :> 20) @@ ("2500" :> 2500)

\* pd.to_numeric(x, errors="coerce") of a scalar, and of each cell of a column
to_numeric(x) ==
  IF x.t = "num" THEN Number(x.n)
  ELSE IF x.t = "str" /\ x.s \in DOMAIN Numerals THEN Number(Numerals[x.s])
  ELSE NaN

\* the date keys of the model, with the day number pandas parses each to
Dates ==
  ("2023-12-29" :> 19720) @@ ("2023-12-31" :> 19722) @@
  ("2024-01-02" :> 19724) @@ ("2024-01-10" :> 19732)

\* pd.to_datetime of one index label
to_datetime(s) == Dates[s]

\* line 162
time_series_key == "Time Series (Daily)"

\* line 172
columns == <<"open", "high", "low", "close", "volume">>

\* one date's "1. open" .. "5. volume", in the order the API sends them
Rows ==
  {<<Str(o), Str("20"), Str("10"), Str("20"), Str(v)>> :
     o \in {"10", "n/a"}, v \in {"2500", ""}}

\* the date keys of a time series, in the order of the JSON object
DateLists ==
  UNION {{ds \in [1..n -> DOMAIN Dates] :
            \A i, j \in 1..n : ds[i] = ds[j] => i = j} : n \in 0..MaxDates}

\* data["Time Series (Daily)"]: a dictionary keyed by date, in insertion order
TimeSeries ==
  UNION {{[i \in 1..Len(ds) |-> [date |-> ds[i], row |-> rs[i]]] :
            rs \in [1..Len(ds) -> Rows]} : ds \in DateLists}

\* what _make_request can hand get_daily_prices: None, a body without the
\* section, a body with it
DailyResponses ==
  {None, <<("Meta Data" :> <<>>)>>}
    \cup {<<("Meta Data" :> <<>>) @@ (time_series_key :> ts)>> : ts \in TimeSeries}

\* pd.DataFrame.from_dict(time_series, orient="index"): one row per key, in
\* the order of the keys; no key, no column
from_dict(ts) == [i \in 1..Len(ts) |-> [index |-> ts[i].date, cells |-> ts[i].row]]

\* number of columns of a frame
Width(df) == IF df = <<>> THEN 0 ELSE Len(df[1].cells)

\* df.index = pd.to_datetime(df.index)
DatetimeIndex(df) == [i \in DOMAIN df |-> [df[i] EXCEPT !.index = to_datetime(@)]]

\* row r put after the rows of the sorted frame s that are not later than it
Insert(r, s) ==
  LET k == Cardinality({i \in DOMAIN s : s[i].index <= r.index})
  IN SubSeq(s, 1, k) \o <<r>> \o SubSeq(s, k + 1, Len(s))

RECURSIVE sort_index(_)
\* df.sort_index(ascending=True)
sort_index(df) ==
  IF df = <<>> THEN <<>>
  ELSE Insert(df[Len(df)], sort_index(SubSeq(df, 1, Len(df) - 1)))

\* df[col] = pd.to_numeric(df[col], errors="coerce"), for each column
NumericColumns(df) ==
  [i \in DOMAIN df |->
     [df[i] EXCEPT !.cells = [c \in DOMAIN @ |-> to_numeric(@[c])]]]

\* Lines 161-196 on what _make_request returned.  `key in None` raises
\* TypeError; naming five columns of a frame that has another number of them
\* raises ValueError (a frame made from no key has none).
DailyShaped(d) ==
  IF d = None THEN Raised("TypeError")
  ELSE IF time_series_key \notin DOMAIN d[1] THEN Returned(None)
  ELSE LET df == from_dict(d[1][time_series_key])
       IN IF Width(df) # Len(columns)
            THEN Raised("ValueError")
            ELSE Returned(<<NumericColumns(sort_index(DatetimeIndex(df)))>>)

\* get_daily_prices, _make_request having returned `data`
GetDailyPrices ==
  /\ pc = "idle"
  /\ bpc = "idle"
  /\ calls < MaxCalls
  /\ calls' = calls + 1
  /\ method' = "get_daily_prices"
  /\ ret' = Boundary(DailyShaped(data))
  /\ UNCHANGED <<now, last_call_time, call_count, max_calls_per_minute,
                 MAX_RETRIES, pc, interval, attempt, reqs, outs, sleeps>>
  /\ UNCHANGED <<batch, data>>

\* the numeric fields of the overview, with the key each is read from
NumericFields ==
  ("market_cap" :> "MarketCapitalization") @@ ("pe_ratio" :> "PERatio") @@
  ("dividend_yield" :> "DividendYield") @@ ("52_week_high" :> "52WeekHigh") @@
  ("52_week_low" :> "52WeekLow") @@ ("shares_outstanding" :> "SharesOutstanding")

\* every numeric field defaulting to 0
DefaultZero(key) == Num(0)

\* the default data.get is given for a numeric key (lines 311-326)
Default(key) ==
  IF key \in {"MarketCapitalization", "DividendYield", "SharesOutstanding"}
    THEN Num(0)
    ELSE PyNone

\* d.get(key, default)
Get(d, key, default) == IF key \in DOMAIN d THEN d[key] ELSE default

\* the values the API sends for a numeric key: a number, zero, no figure
OverviewValues == {Str("2500"), Str("0"), Str("None")}

\* what _make_request can hand get_company_overview: None, or a dictionary
\* with any of the numeric keys, with or without Symbol
OverviewResponses ==
  {None} \cup
  {<<fields @@ sym>> :
     fields \in UNION {[K -> OverviewValues] :
                         K \in SUBSET {NumericFields[f] : f \in DOMAIN NumericFields}},
     sym \in {<<>>, "Symbol" :> Str("AAPL")}}

\* lines 296-328 on what _make_request returned
OverviewShaped(d) ==
  IF d = None \/ DOMAIN d[1] = {} \/ "Symbol" \notin DOMAIN d[1]
    THEN Returned(None)
    ELSE Returned(<<("symbol" :> Get(d[1], "Symbol", Str(""))) @@
                    [f \in DOMAIN NumericFields |->
                       to_numeric(Get(d[1], NumericFields[f],
                                      Default(NumericFields[f])))]>>)

\* get_company_overview, _make_request having returned `data`
GetCompanyOverview ==
  /\ pc = "idle"
  /\ bpc = "idle"
  /\ calls < MaxCalls
  /\ calls' = calls + 1
  /\ method' = "get_company_overview"
  /\ ret' = Boundary(OverviewShaped(data))
  /\ UNCHANGED <<now, last_call_time, call_count, max_calls_per_minute,
                 MAX_RETRIES, pc, interval, attempt, reqs, outs, sleeps>>
  /\ UNCHANGED <<batch, data>>

Next ==
  \/ \E m \in Methods, iv \in Intervals \cup {"none"} : Invoke(m, iv)
  \/ \E o \in Outcomes : Attempt(o)

\* the executor and the fetch methods, under every sequence of server outcomes
Spec == Init /\ [][Next]_vars

\* the interpreter runs a started loop pass to its end
FairSpec == Spec /\ WF_vars(\E o \in Outcomes : Attempt(o))

LimiterNext == \E gap \in Gaps : Request(gap)

\* the limiter, under requests entering at arbitrary non-decreasing times
LimiterSpec == Init /\ [][LimiterNext]_vars

\* the answers a GET of get_daily_prices gets under fetch_multiple_symbols:
\* one of each kind the loop of _make_request and get_daily_prices tell apart
BatchOutcomes ==
  {Failed("Timeout"),
   PlainBody,
   [PlainBody EXCEPT !.section = "absent"],
   [PlainBody EXCEPT !.section = "absent", !.ErrorMessage = TRUE],
   [PlainBody EXCEPT !.section = "absent", !.Note = "call frequency"]}

BatchInit ==
  /\ NoBatch
  /\ now = StartClock
  /\ last_call_time = 0
  /\ call_count = 0
  /\ max_calls_per_minute = ALPHA_VANTAGE_RATE_LIMIT
  /\ MAX_RETRIES \in 0..MaxBatchRetries
  /\ pc = "idle"
  /\ method = "none"
  /\ interval = "none"
  /\ attempt = 0
  /\ calls = 0
  /\ reqs = <<>>
  /\ outs = <<>>
  /\ sleeps = <<>>
  /\ ret = NoResult
  /\ data = None

BatchNext ==
  \/ \E syms \in SymbolLists : FetchMultiple(syms)
  \/ \E o \in BatchOutcomes : BatchAttempt(o)

\* fetch_multiple_symbols, under every list of symbols and sequence of outcomes
BatchSpec == BatchInit /\ [][BatchNext]_vars

\* a client that made no request yet
Fresh ==
  /\ NoBatch
  /\ now = StartClock
  /\ last_call_time = 0
  /\ call_count = 0
  /\ max_calls_per_minute = ALPHA_VANTAGE_RATE_LIMIT
  /\ MAX_RETRIES = MaxRetriesBound
  /\ pc = "idle"
  /\ method = "none"
  /\ interval = "none"
  /\ attempt = 0
  /\ calls = 0
  /\ reqs = <<>>
  /\ outs = <<>>
  /\ sleeps = <<>>
  /\ ret = NoResult

DailyInit == Fresh /\ data \in DailyResponses

\* get_daily_prices on every daily response of the model
DailySpec == DailyInit /\ [][GetDailyPrices]_vars

OverviewInit == Fresh /\ data \in OverviewResponses

\* get_company_overview on every overview response of the model
OverviewSpec == OverviewInit /\ [][GetCompanyOverview]_vars

(* ---------------------- the rate limiter's claims ---------------------- *)
\* the GETs issued in the 60 seconds that begin with the GET of request i
InWindowFrom(i) ==
  {j \in 1..Len(reqs) : /\ reqs[j].issued >= reqs[i].issued
                        /\ reqs[j].issued < reqs[i].issued + rate_limit_window}

\* C1: no rolling 60-second interval contains more than max_calls_per_minute
\* issued GETs.
C1_QuotaPerRollingWindow ==
  \A i \in 1..Len(reqs) : Cardinality(InWindowFrom(i)) <= max_calls_per_minute

\* C2: call_count never exceeds max_calls_per_minute, the boundary case of
\* exactly 60 elapsed seconds included.
C2_CountWithinLimit == call_count <= max_calls_per_minute

\* request i opens a window (the limiter found the counter reset: the first
\* request of the client, or one entering more than 60 s after the previous)
\* and the max_calls_per_minute requests after it entered less than 60 s
\* after it
FullWindowFrom(i) ==
  /\ reqs[i].fresh
  /\ i + max_calls_per_minute <= Len(reqs)
  /\ reqs[i + max_calls_per_minute].entry - reqs[i].entry < rate_limit_window

\* C3: of N+1 requests entering within one 60-second window, counted from the
\* request that opens the window, the first N pass the limiter without a wait
\* and the (N+1)th is made to wait (the limiter's one sleep) before it proceeds.
C3_OneWaitAfterQuota ==
  \A i \in 1..Len(reqs) :
    FullWindowFrom(i) =>
      /\ \A k \in i..(i + max_calls_per_minute - 1) : reqs[k].slept = 0
      /\ reqs[i + max_calls_per_minute].slept > 0
      /\ reqs[i + max_calls_per_minute].issued
           = reqs[i + max_calls_per_minute].entry
               + reqs[i + max_calls_per_minute].slept

\* N+1 requests in one window have been made, the last after a gap
C3_Witness ==
  \E i \in 1..Len(reqs) :
    /\ FullWindowFrom(i)
    /\ max_calls_per_minute = MaxRateLimit
    /\ reqs[i + max_calls_per_minute].entry > reqs[i].entry

\* C14: when the limiter has returned, last_call_time is the clock time of its
\* return (after a rate-limit wait: the time after the wait, not the time the
\* limiter was entered).
C14_WindowStartIsReturnTime ==
  (reqs # <<>> /\ pc = "idle") =>
    /\ last_call_time = reqs[Len(reqs)].entry + reqs[Len(reqs)].slept
    /\ last_call_time = now

(* ----------------------- the executor's claims ------------------------- *)
LastOut == outs[Len(outs)]

AllFailed == Len(outs) >= 1 /\ \A i \in 1..Len(outs) : IsFailure(outs[i])

\* this step is a loop pass whose GET is answered by a call-frequency Note
NoteStep ==
  /\ pc = "request"
  /\ Len(outs') = Len(outs) + 1
  /\ IsFrequencyNote(outs'[Len(outs')])

\* C4 as stated: after a call-frequency Note the executor sleeps 60 s and
\* reissues the request with as many attempts left as before the Note.
C4_NoteKeepsRetryBudget ==
  [][NoteStep => /\ MAX_RETRIES - attempt' = MAX_RETRIES - attempt
                 /\ pc' = "request"]_vars

\* C4 amended: a call-frequency Note makes the executor sleep 60 s and costs
\* one attempt, like a failure; the request is reissued only if an attempt is
\* left.
C4_NoteConsumesAttempt ==
  [][NoteStep =>
       /\ sleeps' = Append(sleeps, [after |-> attempt, secs |-> 60,
                                    kind |-> "note"])
       /\ now' >= now + 60
       /\ MAX_RETRIES - attempt' = MAX_RETRIES - attempt - 1
       /\ (pc' = "request") = (attempt + 1 < MAX_RETRIES)]_vars

\* a request has been reissued after a call-frequency Note
C4_Witness ==
  \E i \in 1..Len(outs) : i < Len(outs) /\ IsFrequencyNote(outs[i])

\* the sleeps 1, 2, 4, ... after failed attempts 0..n-1
ExpectedBackoffs(n) ==
  [k \in 1..n |-> [after |-> k - 1, secs |-> 2 ^ (k - 1), kind |-> "backoff"]]

\* C5: when every attempt fails (timeout, network error, non-2xx) and
\* MAX_RETRIES = R >= 1, exactly R GETs are issued, 2^k seconds are slept after
\* failed attempt k for k = 0..R-2, nothing after the last, and the exception of
\* the R-th failure is raised to the caller.
C5_RetriesThenPropagates ==
  (MAX_RETRIES >= 1 /\ AllFailed) =>
    IF pc = "request"
      THEN /\ Len(outs) < MAX_RETRIES
           /\ attempt = Len(outs)
           /\ sleeps = ExpectedBackoffs(Len(outs))
      ELSE /\ Len(outs) = MAX_RETRIES
           /\ sleeps = ExpectedBackoffs(MAX_RETRIES - 1)
           /\ method = "_make_request" => ret = Raised(LastOut.raises)

\* three attempts have failed and the third failure was raised
C5_Witness ==
  /\ AllFailed
  /\ pc = "idle"
  /\ MAX_RETRIES = 3
  /\ method = "_make_request"
  /\ ret = Raised("Timeout")
  /\ Len(sleeps) = 2

\* C6: a 2xx body with an "Error Message" field ends the invocation at once:
\* its GET is the last one, no sleep follows it, and the API error is raised.
C6_ApiErrorNotRetried ==
  \A i \in 1..Len(outs) :
    IsApiError(outs[i]) =>
      /\ i = Len(outs)
      /\ pc = "idle"
      /\ attempt = i - 1
      /\ \A k \in 1..Len(sleeps) : sleeps[k].after # i - 1
      /\ method = "_make_request" => ret = Raised("ValueError")

\* an API error has answered a retried request
C6_Witness ==
  /\ Len(outs) >= 2
  /\ IsApiError(LastOut)
  /\ method = "_make_request"
  /\ ret = Raised("ValueError")

\* C7: an invocation never issues more than MAX_RETRIES GETs, and it
\* terminates: a started invocation comes to its end.
C7_TerminatesWithinBudget ==
  /\ [](Len(outs) <= MAX_RETRIES)
  /\ (pc = "request") ~> (pc = "idle")

\* a server that answered every attempt with a call-frequency Note
C7_Witness ==
  /\ pc = "idle"
  /\ MAX_RETRIES >= 2
  /\ Len(outs) = MAX_RETRIES
  /\ \A i \in 1..Len(outs) : IsFrequencyNote(outs[i])

\* C8: a completed _make_request (MAX_RETRIES >= 1) either returned a parsed
\* body or raised an exception; it never returns None.
C8_BodyOrException ==
  (pc = "idle" /\ method = "_make_request" /\ MAX_RETRIES >= 1
     /\ ret.status # "none") =>
    \/ ret.status = "raised" /\ ret.exc # "none"
    \/ ret.status = "returned" /\ ret.value # None

(* --------------------- the fetch methods' claims ------------------------ *)
\* C9: a fetch method ends by returning a result or None, whatever its
\* executor did; it never raises.
C9_FetchNeverRaises ==
  (method \in FetchMethods /\ pc = "idle") =>
    /\ ret.status = "returned"
    /\ ret.exc = "none"

\* a fetch method returned None after its executor raised
C9_Witness ==
  /\ method \in FetchMethods
  /\ pc = "idle"
  /\ Len(outs) >= 1
  /\ RaisedInTry(LastOut) # "none"
  /\ ret = Returned(None)

\* get_intraday_prices was invoked with an interval outside the valid ones
InvalidIntervalCall ==
  /\ method = "get_intraday_prices"
  /\ interval \notin valid_intervals

\* C10 as stated: an invalid interval makes get_intraday_prices raise a
\* validation error to its caller, with no HTTP call issued.
C10_InvalidIntervalRaises ==
  InvalidIntervalCall =>
    /\ pc = "idle"
    /\ ret = Raised("ValueError")
    /\ outs = <<>>

\* C10 amended: an invalid interval makes get_intraday_prices return None (the
\* validation error is caught at the method's boundary), with no HTTP call
\* issued.
C10_InvalidIntervalReturnsNone ==
  InvalidIntervalCall =>
    /\ pc = "idle"
    /\ ret = Returned(None)
    /\ outs = <<>>
    /\ attempt = 0

\* get_intraday_prices has been called with "2min"
C10_Witness ==
  /\ method = "get_intraday_prices"
  /\ interval = "2min"
  /\ pc = "idle"
  /\ calls >= 1

(* ------------------- fetch_multiple_symbols' claims --------------------- *)
IsCall(e) == e.kind = "call"
IsReturn(e) == e.kind = "return"
IsPause(e) == e.kind = "pause"

\* the symbols whose get_daily_prices has returned a series so far
Succeeded ==
  {symbols[events[k].i] : k \in {j \in 1..Len(events) : /\ IsReturn(events[j])
                                                         /\ events[j].ok}}

\* C11: get_daily_prices is called once per list element, in list order, a
\* None result stops nothing, and the keys of the returned mapping are exactly
\* the symbols whose fetch returned a series.
C11_KeysAreSucceededSymbols ==
  LET called   == SelectSeq(events, IsCall)
      returned == SelectSeq(events, IsReturn)
  IN /\ \A k \in 1..Len(called) : called[k].i = k
     /\ \A k \in 1..Len(returned) : returned[k].i = k
     /\ Len(called) = idx
     /\ Len(returned) \in {Len(called), Len(called) - 1}
     /\ DOMAIN results = Succeeded
     /\ bpc = "done" => /\ Len(called) = Len(symbols)
                        /\ Len(returned) = Len(symbols)

\* [AAPL, BADSYM, MSFT] has been fetched, BADSYM alone yielding None
C11_Witness ==
  /\ bpc = "done"
  /\ symbols = <<"AAPL", "BADSYM", "MSFT">>
  /\ \A k \in 1..Len(events) :
       IsReturn(events[k]) => (events[k].ok = (events[k].i # 2))
  /\ DOMAIN results = {"AAPL", "MSFT"}

\* C15: for n symbols there are max(n-1, 0) pauses of one second, each right
\* after the fetch of symbol i has returned (with a series or with None) and
\* right before the fetch of symbol i+1 is called; none before the first fetch,
\* none after the last.
C15_PausesBetweenSymbols ==
  LET n == Len(symbols)
  IN /\ \A k \in 1..Len(events) :
          /\ IsPause(events[k]) =>
               /\ k > 1 /\ k < Len(events)
               /\ events[k - 1] \in {Event("return", events[k].i, TRUE),
                                     Event("return", events[k].i, FALSE)}
               /\ events[k + 1] = Event("call", events[k].i + 1, FALSE)
          /\ (IsReturn(events[k]) /\ events[k].i < n) =>
               /\ k < Len(events)
               /\ IsPause(events[k + 1])
          /\ (IsCall(events[k]) /\ events[k].i > 1) =>
               /\ k > 1
               /\ IsPause(events[k - 1])
     /\ bpc = "done" =>
          /\ Len(SelectSeq(events, IsPause)) = IF n = 0 THEN 0 ELSE n - 1
          /\ n > 0 => /\ events[1] = Event("call", 1, FALSE)
                      /\ IsReturn(events[Len(events)])
          \* with no GET and so no other sleep, the pauses are all the time spent
          /\ reqs = <<>> => now = StartClock + PauseSecs * (IF n = 0 THEN 0 ELSE n - 1)

\* three symbols have been fetched, one of them yielding None, with two pauses
C15_Witness ==
  /\ bpc = "done"
  /\ Len(symbols) = 3
  /\ reqs # <<>>
  /\ Len(SelectSeq(events, IsPause)) = 2
  /\ \E k \in 1..Len(events) : IsReturn(events[k]) /\ ~events[k].ok

(* --------------------------- shaping claims ---------------------------- *)
\* frame df holds time series ts: as many rows as ts has dates, in strictly
\* ascending date order, each date of ts the index of a row whose five cells
\* are that date's values as numbers, NaN where the value does not parse
HoldsSeries(df, ts) ==
  /\ Len(df) = Len(ts)
  /\ \A j \in 1..(Len(df) - 1) : df[j].index < df[j + 1].index
  /\ \A i \in DOMAIN ts :
       \E j \in DOMAIN df :
         /\ df[j].index = to_datetime(ts[i].date)
         /\ df[j].cells = [c \in 1..Len(columns) |-> to_numeric(ts[i].row[c])]

\* C12: get_daily_prices on a response whose daily section has k distinct
\* dates, in any order, returns a series of exactly k entries, one per date,
\* in strictly ascending date order, each with its date's values as numbers
\* (missing where unparsable); on a response without the section it returns
\* null.
C12_DailySeriesShaped ==
  (calls > 0 /\ method = "get_daily_prices" /\ data # None) =>
    IF time_series_key \in DOMAIN data[1]
      THEN /\ ret.status = "returned"
           /\ ret.value # None
           /\ HoldsSeries(ret.value[1], data[1][time_series_key])
      ELSE ret = Returned(None)

\* the overview fields whose missing source is NaN, and those where it is 0
MissingWhenAbsent == {"pe_ratio", "52_week_high", "52_week_low"}
ZeroWhenAbsent == {"market_cap", "dividend_yield", "shares_outstanding"}

\* C13: for an overview response that contains Symbol, pe_ratio, 52_week_high
\* and 52_week_low are NaN when their source field is absent, market_cap,
\* dividend_yield and shares_outstanding are 0 when theirs is, and a present
\* field that does not parse is NaN, never 0; a response without Symbol
\* yields null.
C13_AsymmetricDefaults ==
  (calls > 0 /\ method = "get_company_overview") =>
    IF data # None /\ "Symbol" \in DOMAIN data[1]
      THEN /\ ret.status = "returned"
           /\ ret.value # None
           /\ LET ov == ret.value[1]
                  d == data[1]
              IN /\ \A f \in MissingWhenAbsent :
                      NumericFields[f] \notin DOMAIN d => ov[f].nan
                 /\ \A f \in ZeroWhenAbsent :
                      NumericFields[f] \notin DOMAIN d => ov[f] = Number(0)
                 /\ \A f \in DOMAIN NumericFields :
                      (NumericFields[f] \in DOMAIN d /\ d[NumericFields[f]] = Str("None"))
                        => ov[f].nan /\ ov[f] # Number(0)
      ELSE ret = Returned(None)

\* an overview with PERatio and MarketCapitalization absent and an unparsable
\* DividendYield has been shaped
C13_Witness ==
  /\ calls > 0
  /\ method = "get_company_overview"
  /\ data # None
  /\ "Symbol" \in DOMAIN data[1]
  /\ {"PERatio", "MarketCapitalization"} \cap DOMAIN data[1] = {}
  /\ "DividendYield" \in DOMAIN data[1]
  /\ data[1]["DividendYield"] = Str("None")
  /\ ret.value # None
  /\ ret.value[1]["pe_ratio"].nan
  /\ ret.value[1]["market_cap"] = Number(0)
  /\ ret.value[1]["dividend_yield"].nan

====
